---- MODULE Spec2Model ----
(***************************************************************************)
(* Model of sm_utils.CosmosData: the construction of the daily driving     *)
(* data of one COSMOS-UK site (archival files, the COSMOS API, the MODIS   *)
(* LAI file) and of the two atmosphere files written for Hydrus.           *)
(*                                                                         *)
(* Dates are day numbers 1..NumDays, DaysPerYear days to a year; NaT is 0. *)
(* A float is a pair <<n, d>>: the rational n/d in lowest terms (d > 0),   *)
(* <<0, 0>> for NaN, <<1, 0>> and <<-1, 0>> for +inf and -inf.  A table    *)
(* (DataFrame) is its index labels in row order and one sequence of values *)
(* per column.  A sub-daily timestamp is a slot number, SlotsPerDay to a   *)
(* day.                                                                    *)
(***************************************************************************)
EXTENDS Integers, Sequences, FiniteSets, TLC

\* ------------------------------------------------------------------ bounds
DaysPerYear == 2
MaxSamples == 3
MaxPrecRows == 3
SlotsPerDay == 2

\* the years the files cover
AllYears == {1, 2}

NumDays == DaysPerYear * Cardinality(AllYears)
AllDays == 1..NumDays

\* ------------------------------------------------------------------ floats
NaN == <<0, 0>>
NaT == 0

Abs(x) == IF x < 0 THEN -x ELSE x
Sgn(x) == IF x < 0 THEN -1 ELSE IF x = 0 THEN 0 ELSE 1

RECURSIVE GCD(_, _)
GCD(a, b) == IF b = 0 THEN a ELSE GCD(b, a % b)

IsNaN(x) == x = NaN
IsInf(x) == x[2] = 0 /\ x[1] # 0
IsFinite(x) == x[2] > 0

\* the float n/d for integers n and d
Frac(n, d) ==
    IF d = 0 THEN <<Sgn(n), 0>>
    ELSE LET g == GCD(Abs(n), Abs(d))
         IN  <<(Sgn(d) * n) \div g, Abs(d) \div g>>

F(n) == <<n, 1>>

FNeg(x) == <<-x[1], x[2]>>

FAdd(x, y) ==
    IF IsNaN(x) \/ IsNaN(y) THEN NaN
    ELSE IF IsInf(x) /\ IsInf(y) THEN (IF x = y THEN x ELSE NaN)
    ELSE IF IsInf(x) THEN x
    ELSE IF IsInf(y) THEN y
    ELSE LET g == GCD(x[2], y[2])
             l == (x[2] \div g) * y[2]
         IN  Frac(x[1] * (l \div x[2]) + y[1] * (l \div y[2]), l)

FSub(x, y) == FAdd(x, FNeg(y))

FMul(x, y) ==
    IF IsNaN(x) \/ IsNaN(y) THEN NaN
    ELSE IF IsInf(x) \/ IsInf(y) THEN <<Sgn(x[1]) * Sgn(y[1]), 0>>
    ELSE LET g1 == GCD(Abs(x[1]), y[2])
             g2 == GCD(Abs(y[1]), x[2])
         IN  Frac((x[1] \div g1) * (y[1] \div g2), (x[2] \div g2) * (y[2] \div g1))

FDiv(x, y) ==
    IF IsNaN(x) \/ IsNaN(y) THEN NaN
    ELSE IF IsInf(y) THEN (IF IsInf(x) THEN NaN ELSE F(0))
    ELSE IF y[1] = 0 THEN <<Sgn(x[1]), 0>>
    ELSE FMul(x, <<Sgn(y[1]) * y[2], Abs(y[1])>>)

\* ------------------------------------------------------------------ dates
YearOf(d) == ((d - 1) \div DaysPerYear) + 1

SetMin(S) == CHOOSE x \in S : \A y \in S : x <= y
SetMax(S) == CHOOSE x \in S : \A y \in S : x >= y

\* pd.date_range(start = 1 Jan of min(years), end = 31 Dec of max(years))
date_range(ys) ==
    LET first == (SetMin(ys) - 1) * DaysPerYear + 1
        last  == SetMax(ys) * DaysPerYear
    IN  [k \in 1..(last - first + 1) |-> first + k - 1]

\* (a - b) / np.timedelta64(1, 'D'): the day count as a float, NaN with a NaT
DaysBetween(a, b) == IF a = NaT \/ b = NaT THEN NaN ELSE F(a - b)

\* ------------------------------------------------------------- table helpers
\* a DataFrame: the index labels in row order, and one value sequence per column
DataFrame(index, cols) == [index |-> index, cols |-> cols]
NoDF == DataFrame(<<>>, <<>>)

\* the outcome of a call: the value returned, or the exception raised
Return(df) == [err |-> "", df |-> df]
Raise(e) == [err |-> e, df |-> NoDF]

RECURSIVE SortByDate(_)
SortByDate(S) ==
    IF S = {} THEN <<>>
    ELSE LET r == CHOOSE x \in S : \A y \in S : x.Date <= y.Date
         IN  <<r>> \o SortByDate(S \ {r})

Column(T, c) == [i \in 1..Len(T) |-> T[i][c]]

HasDuplicates(s) == \E i, j \in 1..Len(s) : i < j /\ s[i] = s[j]

\* Series.shift(1) with the fill value miss in the first row
Shift1(s, miss) == [i \in 1..Len(s) |-> IF i = 1 THEN miss ELSE s[i - 1]]

\* s[1] := v (a no-op on the empty series is never needed: the code fails first)
SetFirst(s, v) == [i \in 1..Len(s) |-> IF i = 1 THEN v ELSE s[i]]

\* reindex the column vals, labelled by the dates labels, onto idx
Reindex(labels, vals, idx, miss) ==
    [k \in 1..Len(idx) |->
        IF \E i \in 1..Len(labels) : labels[i] = idx[k]
        THEN vals[CHOOSE i \in 1..Len(labels) : labels[i] = idx[k]]
        ELSE miss]

RECURSIVE FFillTo(_, _, _)
FFillTo(s, miss, k) ==
    IF k = 0 THEN <<>>
    ELSE LET p == FFillTo(s, miss, k - 1)
         IN  Append(p, IF s[k] # miss \/ k = 1 THEN s[k] ELSE p[k - 1])

ffill(s, miss) == FFillTo(s, miss, Len(s))

Reverse(s) == [i \in 1..Len(s) |-> s[Len(s) + 1 - i]]

bfill(s, miss) == Reverse(ffill(Reverse(s), miss))

\* ------------------------------------------------------------ get_MODIS_data
\* MODIS.loc[SITE_ID == site].loc[Date.dt.year.isin(years)].sort_values('Date')
MODISRows(file, s, ys) ==
    SortByDate({r \in file : r.SITE_ID = s /\ YearOf(r.Date) \in ys})

\* the smoothing as a recurrence: each step damped from the previous smoothed
\* value, first value the first raw LAI
RECURSIVE Smoothed(_, _)
Smoothed(M, i) ==
    IF i = 1 THEN M[1].LAI
    ELSE LET p == Smoothed(M, i - 1)
         IN  FAdd(p, FDiv(FSub(M[i].LAI, p), F(M[i].Confidence + 1)))

\* CALC as it would be were it computed by that recurrence
CALC_recurrence(M) == [i \in 1..Len(M) |-> Smoothed(M, i)]

\* CALC = LAI.shift(1) + (LAI - LAI.shift(1)) / (Confidence + 1); CALC[0] = LAI[0]
CALC(M) ==
    LET lai  == Column(M, "LAI")
        prev == Shift1(lai, NaN)
    IN  SetFirst([i \in 1..Len(M) |->
                    FAdd(prev[i], FDiv(FSub(lai[i], prev[i]),
                                       FAdd(F(M[i].Confidence), F(1))))],
                 lai[1])

\* Date0 = Date2.shift(1); Date0[0] = Date2[0]
Date0Col(M) ==
    LET d2 == Column(M, "Date")
    IN  SetFirst(Shift1(d2, NaT), d2[1])

\* the triangle rule of one calendar row
TriangleRule(calc, calc2, date2, date0, d) ==
    FAdd(calc2, FDiv(FMul(FSub(calc, calc2), DaysBetween(date2, d)),
                     DaysBetween(date2, date0)))

get_MODIS_data(file, s, ys) ==
    LET M      == MODISRows(file, s, ys)
        dates  == Column(M, "Date")
        idx    == date_range(ys)
        cCALC  == ffill(Reindex(dates, CALC(M), idx, NaN), NaN)
        cCALC2 == bfill(Reindex(dates, CALC(M), idx, NaN), NaN)
        cDate2 == bfill(Reindex(dates, dates, idx, NaT), NaT)
        cDate0 == ffill(Reindex(dates, Date0Col(M), idx, NaT), NaT)
        cLAI   == Reindex(dates, Column(M, "LAI"), idx, NaN)
        pred   == [k \in 1..Len(idx) |->
                      TriangleRule(cCALC[k], cCALC2[k], cDate2[k], cDate0[k], idx[k])]
        patched == SetFirst(pred, cLAI[1])
    IN  IF Len(M) = 0 THEN Raise("KeyError")
        ELSE IF HasDuplicates(dates) THEN Raise("ValueError")
        ELSE IF \E k \in 1..Len(idx) : cDate2[k] = NaT \/ cDate0[k] = NaT
             THEN Raise("IntCastingNaNError")
        ELSE Return(DataFrame(idx, [LAI_pred |-> patched]))

\* ------------------------------------------------------------ archival readers
Sentinel == -9999

\* read_csv(..., na_values=-9999) of one numeric cell
ReadCell(v) == IF v = Sentinel THEN NaN ELSE F(v)

\* the positions 1..n that satisfy keep, in order (a boolean row mask)
SelectRows(n, keep(_)) == SelectSeq([i \in 1..n |-> i], keep)

\* cosmos_vwc[['Date', column]].loc[Date.dt.year.isin(years)].set_index('Date')
HydroColumn(file, ys, column) ==
    LET keep(i) == YearOf(file[i].DATE_TIME) \in ys
        sel == SelectRows(Len(file), keep)
    IN  DataFrame([k \in 1..Len(sel) |-> file[sel[k]].DATE_TIME],
                  [c \in {column} |-> [k \in 1..Len(sel) |-> ReadCell(file[sel[k]][column])]])

get_cosmos_data(file, ys) == HydroColumn(file, ys, "COSMOS_VWC")

get_PE_data(file, ys) == HydroColumn(file, ys, "PE")

\* pd.to_datetime(DATE_TIME).dt.date of a sub-daily timestamp
DateOf(ts) == (ts \div SlotsPerDay) + 1

RECURSIVE SortInts(_)
SortInts(S) ==
    IF S = {} THEN <<>>
    ELSE LET m == SetMin(S) IN <<m>> \o SortInts(S \ {m})

\* the sum of the non-null values among the first n rows with date d
RECURSIVE GroupSum(_, _, _)
GroupSum(file, d, n) ==
    IF n = 0 THEN F(0)
    ELSE IF DateOf(file[n].DATE_TIME) = d /\ ~IsNaN(ReadCell(file[n].PRECIP))
         THEN FAdd(GroupSum(file, d, n - 1), ReadCell(file[n].PRECIP))
         ELSE GroupSum(file, d, n - 1)

\* the number of rows with date d, null or not
GroupCount_size(file, d) ==
    Cardinality({i \in 1..Len(file) : DateOf(file[i].DATE_TIME) = d})

\* the number of non-null values with date d
GroupCount(file, d) ==
    Cardinality({i \in 1..Len(file) :
                    DateOf(file[i].DATE_TIME) = d /\ ~IsNaN(ReadCell(file[i].PRECIP))})

\* groupby(date).PRECIP.agg(['sum', 'count']), then the rows of the requested years
get_PREC_data(file, ys) ==
    LET groups == SortInts({DateOf(file[i].DATE_TIME) : i \in 1..Len(file)})
        keep(k) == YearOf(groups[k]) \in ys
        sel == SelectRows(Len(groups), keep)
    IN  DataFrame([k \in 1..Len(sel) |-> groups[sel[k]]],
                  [PRECIP     |-> [k \in 1..Len(sel) |-> GroupSum(file, groups[sel[k]], Len(file))],
                   prec_count |-> [k \in 1..Len(sel) |-> F(GroupCount(file, groups[sel[k]]))]])

\* ------------------------------------------------------------------ the API
\* read_json_collection_data: every coverage's rows, one after the other,
\* indexed by (datetime, site_id), one column per parameter of its ranges
RECURSIVE CoverageRows(_, _)
CoverageRows(covs, n) ==
    IF n = 0 THEN DataFrame(<<>>, <<>>)
    ELSE LET head == CoverageRows(covs, n - 1)
             c    == covs[n]
             here == [i \in 1..Len(c.t) |-> [datetime |-> c.t[i], site_id |-> c.id]]
         IN  DataFrame(head.index \o here,
                       [p \in DOMAIN c.ranges |->
                           (IF p \in DOMAIN head.cols THEN head.cols[p]
                            ELSE [i \in 1..Len(head.index) |-> NaN]) \o c.ranges[p]])

get_cosmos_api_data(resp) ==
    IF "coverages" \notin DOMAIN resp THEN Raise("KeyError")
    ELSE Return(CoverageRows(resp.coverages, Len(resp.coverages)))

\* api_data[[column]].droplevel('site_id'), indexed by the date of datetime
get_cosmos_api_single(api, column) ==
    IF column \notin DOMAIN api.cols THEN Raise("KeyError")
    ELSE Return(DataFrame([i \in 1..Len(api.index) |-> DateOf(api.index[i].datetime)],
                          [c \in {column} |-> api.cols[column]]))

\* ------------------------------------------------------------ joins on the index
Lookup(df, c, label) ==
    IF \E i \in 1..Len(df.index) : df.index[i] = label
    THEN df.cols[c][CHOOSE i \in 1..Len(df.index) : df.index[i] = label]
    ELSE NaN

Width(df) == Len(df.index)

AddColumns(index, left, right) ==
    [c \in DOMAIN left \cup DOMAIN right |-> IF c \in DOMAIN left THEN left[c] ELSE right[c]]

\* left.join(right): the rows of left, the columns of right looked up by label
\* (the labels of right are distinct: grouped dates, or the calendar)
Join(left, right) ==
    DataFrame(left.index,
              AddColumns(left.index, left.cols,
                         [c \in DOMAIN right.cols |->
                             [i \in 1..Width(left) |-> Lookup(right, c, left.index[i])]]))

Labels(df) == {df.index[i] : i \in 1..Width(df)}

\* pd.concat([a, b, c], axis=1): outer alignment on the sorted union of the
\* labels; labels repeated within one table cannot be aligned
Concat3(a, b, c) ==
    LET idx == SortInts(Labels(a) \cup Labels(b) \cup Labels(c))
        on(df) == [col \in DOMAIN df.cols |->
                      [i \in 1..Len(idx) |-> Lookup(df, col, idx[i])]]
    IN  IF a.index = b.index /\ b.index = c.index
        THEN Return(DataFrame(a.index, AddColumns(a.index, AddColumns(a.index, a.cols, b.cols), c.cols)))
        ELSE IF HasDuplicates(a.index) \/ HasDuplicates(b.index) \/ HasDuplicates(c.index)
        THEN Raise("InvalidIndexError")
        ELSE Return(DataFrame(idx, AddColumns(idx, AddColumns(idx, on(a), on(b)), on(c))))

\* ------------------------------------------------------------ write_atmo_data
\* np.exp in fixed point: the Taylor series of exp(x) to ExpTerms terms on
\* integers scaled by FixScale
ExpTerms == 10
FixScale == 100 * 100

\* a / b for b > 0, rounded to the nearest integer
RoundDiv(a, b) == (2 * a + b) \div (2 * b)

RECURSIVE ExpTerm(_, _)
ExpTerm(u, k) == IF k = 0 THEN FixScale ELSE RoundDiv(ExpTerm(u, k - 1) * u, FixScale * k)

RECURSIVE ExpSum(_, _)
ExpSum(u, k) == IF k = 0 THEN ExpTerm(u, 0) ELSE ExpSum(u, k - 1) + ExpTerm(u, k)

NpExp(x) ==
    IF IsNaN(x) THEN NaN
    ELSE IF IsInf(x) THEN (IF x[1] > 0 THEN x ELSE F(0))
    ELSE LET g == GCD(FixScale, x[2])
             u == RoundDiv(x[1] * (FixScale \div g), x[2] \div g)
         IN  Frac(ExpSum(u, ExpTerms), FixScale)

Extinction == Frac(-463, 1000)
UnitFactor == Frac(1, 10)
hCritA == 100000

Transform(df, f(_)) ==
    DataFrame(df.index, [c \in DOMAIN df.cols |-> [i \in 1..Width(df) |-> f(df.cols[c][i])]])

Assign(df, name, vals) ==
    DataFrame(df.index, [c \in DOMAIN df.cols \cup {name} |->
                            IF c = name THEN vals ELSE df.cols[c]])

Drop(df, names) ==
    DataFrame(df.index, [c \in DOMAIN df.cols \ names |-> df.cols[c]])

Rename(df, old, new) ==
    IF old \notin DOMAIN df.cols THEN df
    ELSE DataFrame(df.index, [c \in (DOMAIN df.cols \ {old}) \cup {new} |->
                                 IF c = new THEN df.cols[old] ELSE df.cols[c]])

\* the chain with hCritA appended before the scaling instead of after it
Atmo_scaledConstant(joined, pe, precip) ==
    LET n     == Width(joined)
        rSoil == [i \in 1..n |-> FMul(joined.cols[pe][i],
                                      NpExp(FMul(Extinction, joined.cols.LAI_pred[i])))]
        a1    == Assign(joined, "rSoil", rSoil)
        a2    == Assign(a1, "rRoot", [i \in 1..n |-> FSub(a1.cols[pe][i], a1.cols.rSoil[i])])
        a3    == Assign(Drop(a2, {"LAI_pred", pe}), "hCritA", [i \in 1..n |-> F(hCritA)])
        scale(x) == FMul(x, UnitFactor)
        a4    == Rename(Transform(a3, scale), precip, "Prec")
        a5    == Assign(a4, "tAtm", [i \in 1..n |-> F((i - 1) + 1)])
    IN  DataFrame([i \in 1..n |-> i - 1], a5.cols)

\* the chain of lines 203-210 (API) and 217-224 (files) on the joined table:
\* pe and precip name the PE and precipitation columns of the pathway
Atmo(joined, pe, precip) ==
    LET n     == Width(joined)
        rSoil == [i \in 1..n |-> FMul(joined.cols[pe][i],
                                      NpExp(FMul(Extinction, joined.cols.LAI_pred[i])))]
        a1    == Assign(joined, "rSoil", rSoil)
        a2    == Assign(a1, "rRoot", [i \in 1..n |-> FSub(a1.cols[pe][i], a1.cols.rSoil[i])])
        a3    == Drop(a2, {"LAI_pred", pe})
        scale(x) == FMul(x, UnitFactor)
        a4    == Transform(a3, scale)
        a5    == Assign(a4, "hCritA", [i \in 1..n |-> F(hCritA)])
        a6    == Rename(a5, precip, "Prec")
        \* tAtm = range(len(x)) becomes the index, comes back as a column, plus 1
        a7    == Assign(a6, "tAtm", [i \in 1..n |-> F((i - 1) + 1)])
    IN  DataFrame([i \in 1..n |-> i - 1], a7.cols)

\* '%6.4f' of a float: the count of 1/10000, rounded half away from zero
Format(x) ==
    IF ~IsFinite(x) THEN [na |-> TRUE, v |-> 0]
    ELSE LET g == GCD(FixScale, x[2])
             n == Abs(x[1]) * (FixScale \div g)
             d == x[2] \div g
         IN  [na |-> FALSE, v |-> Sgn(x[1]) * RoundDiv(n, d)]

\* the integer columns of atmo (a constant, a range): written unformatted
IntColumns == {"hCritA", "tAtm"}

\* to_csv: one line per row, the index first, every float cell formatted
to_csv(df) ==
    [i \in 1..Width(df) |->
        [index |-> df.index[i],
         cells |-> [c \in DOMAIN df.cols |->
                      IF c \in IntColumns THEN [na |-> FALSE, v |-> df.cols[c][i][1]]
                      ELSE Format(df.cols[c][i])]]]

\* ------------------------------------------------------------ the run
VARIABLES
    years,         \* self.years: the requested years
    site,          \* self.site
    hydroFile,     \* COSMOS-UK_<site>_HydroSoil_Daily_2013-2019.csv, its rows
    shFile,        \* COSMOS-UK_<site>_HydroSoil_SH_2013-2019.csv, its rows
    modisFile,     \* data/MODIS_LAI_2015-12-15_to_2023-03-03.csv, its rows
    apiResp,       \* the JSON document the API answers the request with
    failAt,        \* the step at which the file system or the network fails
    pc,            \* the statement of __init__ to execute next
    cosmos_data, PE_data, PREC_data, MODIS_data, LAI_data,
    driving_data, api_data, atmo_data,   \* the attributes of the object
    outApi,        \* data/atmosphere_API.csv
    outFile,       \* data/atmosphere.csv
    requests,      \* the number of requests sent to the API
    error          \* the exception that ended the run, "" if none

inputs == <<years, site, hydroFile, shFile, modisFile, apiResp, failAt>>
fields == <<cosmos_data, PE_data, PREC_data, MODIS_data, LAI_data,
            driving_data, api_data, atmo_data>>
vars == <<inputs, pc, fields, outApi, outFile, requests, error>>

\* an output file: absent, or its lines; by names who wrote it last, and
\* complete is FALSE when the write stopped before the last line
Absent == [exists |-> FALSE, by |-> "nobody", complete |-> FALSE, lines |-> <<>>]
Prior == [exists |-> TRUE, by |-> "prior", complete |-> TRUE, lines |-> <<>>]
Written(df) == [exists |-> TRUE, by |-> "run", complete |-> TRUE, lines |-> to_csv(df)]
Partial(df, k) ==
    [exists |-> TRUE, by |-> "run", complete |-> FALSE, lines |-> SubSeq(to_csv(df), 1, k)]

\* the run ends with exception e
Fail(e) == pc' = "failed" /\ error' = e

\* line 30
GetCosmosData ==
    /\ pc = "cosmos"
    /\ IF failAt = "cosmos"
       THEN Fail("DataUnavailable") /\ UNCHANGED cosmos_data
       ELSE /\ cosmos_data' = get_cosmos_data(hydroFile, years)
            /\ pc' = "PE"
            /\ UNCHANGED error
    /\ UNCHANGED <<inputs, PE_data, PREC_data, MODIS_data, LAI_data, driving_data,
                   api_data, atmo_data, outApi, outFile, requests>>

\* line 31
GetPEData ==
    /\ pc = "PE"
    /\ IF failAt = "PE"
       THEN Fail("DataUnavailable") /\ UNCHANGED PE_data
       ELSE /\ PE_data' = get_PE_data(hydroFile, years)
            /\ pc' = "PREC"
            /\ UNCHANGED error
    /\ UNCHANGED <<inputs, cosmos_data, PREC_data, MODIS_data, LAI_data, driving_data,
                   api_data, atmo_data, outApi, outFile, requests>>

\* line 32
GetPRECData ==
    /\ pc = "PREC"
    /\ IF failAt = "PREC"
       THEN Fail("DataUnavailable") /\ UNCHANGED PREC_data
       ELSE /\ PREC_data' = get_PREC_data(shFile, years)
            /\ pc' = "MODIS"
            /\ UNCHANGED error
    /\ UNCHANGED <<inputs, cosmos_data, PE_data, MODIS_data, LAI_data, driving_data,
                   api_data, atmo_data, outApi, outFile, requests>>

\* line 33
GetMODISData ==
    /\ pc = "MODIS"
    /\ LET r == get_MODIS_data(modisFile, site, years)
       IN  IF failAt = "MODIS" THEN Fail("DataUnavailable") /\ UNCHANGED MODIS_data
           ELSE IF r.err # "" THEN Fail(r.err) /\ UNCHANGED MODIS_data
           ELSE /\ MODIS_data' = r.df
                /\ pc' = "LAI"
                /\ UNCHANGED error
    /\ UNCHANGED <<inputs, cosmos_data, PE_data, PREC_data, LAI_data, driving_data,
                   api_data, atmo_data, outApi, outFile, requests>>

\* line 34: get_LAI_data reads and reconstructs once more
GetLAIData ==
    /\ pc = "LAI"
    /\ LET r == get_MODIS_data(modisFile, site, years)
       IN  IF failAt = "LAI" THEN Fail("DataUnavailable") /\ UNCHANGED LAI_data
           ELSE IF r.err # "" THEN Fail(r.err) /\ UNCHANGED LAI_data
           ELSE /\ LAI_data' = r.df
                /\ pc' = "concat"
                /\ UNCHANGED error
    /\ UNCHANGED <<inputs, cosmos_data, PE_data, PREC_data, MODIS_data, driving_data,
                   api_data, atmo_data, outApi, outFile, requests>>

\* line 35
ConcatFiles ==
    /\ pc = "concat"
    /\ LET r == Concat3(PE_data, PREC_data, LAI_data)
       IN  IF r.err # "" THEN Fail(r.err) /\ UNCHANGED driving_data
           ELSE /\ driving_data' = r.df
                /\ pc' = "api"
                /\ UNCHANGED error
    /\ UNCHANGED <<inputs, cosmos_data, PE_data, PREC_data, MODIS_data, LAI_data,
                   api_data, atmo_data, outApi, outFile, requests>>

\* line 36 with the request sent again after a failed one
GetCosmosApiData_retry ==
    /\ pc = "api"
    /\ requests' = requests + (IF failAt = "api" THEN 2 ELSE 1)
    /\ LET r == get_cosmos_api_data(apiResp)
       IN  IF failAt = "api" THEN Fail("RemoteUnavailable") /\ UNCHANGED api_data
           ELSE IF r.err # "" THEN Fail(r.err) /\ UNCHANGED api_data
           ELSE /\ api_data' = r.df
                /\ pc' = "concat_api"
                /\ UNCHANGED error
    /\ UNCHANGED <<inputs, cosmos_data, PE_data, PREC_data, MODIS_data, LAI_data,
                   driving_data, atmo_data, outApi, outFile>>

\* line 36: the one request, and the decoding of its answer
GetCosmosApiData ==
    /\ pc = "api"
    /\ requests' = requests + 1
    /\ LET r == get_cosmos_api_data(apiResp)
       IN  IF failAt = "api" THEN Fail("RemoteUnavailable") /\ UNCHANGED api_data
           ELSE IF r.err # "" THEN Fail(r.err) /\ UNCHANGED api_data
           ELSE /\ api_data' = r.df
                /\ pc' = "concat_api"
                /\ UNCHANGED error
    /\ UNCHANGED <<inputs, cosmos_data, PE_data, PREC_data, MODIS_data, LAI_data,
                   driving_data, atmo_data, outApi, outFile>>

\* line 38
ConcatApi ==
    /\ pc = "concat_api"
    /\ LET pe == get_cosmos_api_single(api_data, "pe")
           pr == get_cosmos_api_single(api_data, "precip")
           r  == Concat3(pe.df, pr.df, LAI_data)
       IN  IF pe.err # "" THEN Fail(pe.err) /\ UNCHANGED driving_data
           ELSE IF pr.err # "" THEN Fail(pr.err) /\ UNCHANGED driving_data
           ELSE IF r.err # "" THEN Fail(r.err) /\ UNCHANGED driving_data
           ELSE /\ driving_data' = r.df
                /\ pc' = "write_api"
                /\ UNCHANGED error
    /\ UNCHANGED <<inputs, cosmos_data, PE_data, PREC_data, MODIS_data, LAI_data,
                   api_data, atmo_data, outApi, outFile, requests>>

\* the table of lines 202-210
AtmoApi ==
    Atmo(Join(Join(get_cosmos_api_single(api_data, "pe").df,
                   get_cosmos_api_single(api_data, "precip").df), MODIS_data),
         "pe", "precip")

\* the table of lines 216-224
AtmoFiles == Atmo(Join(Join(PE_data, PREC_data), MODIS_data), "PE", "PRECIP")

\* to_csv on path with the table df: the file as the call leaves it.  A
\* failing write raises before the file is opened, or after k of its lines.
WriteCsv(file, df, fails) ==
    IF fails
    THEN {file} \cup {Partial(df, k) : k \in 0..(Width(df) - 1)}
    ELSE {Written(df)}

\* lines 202-213 with both output files opened before the first is written
WriteAtmoApi_openBoth ==
    /\ pc = "write_api"
    /\ \E f \in WriteCsv(outApi, AtmoApi, failAt = "write_api") : outApi' = f
    /\ outFile' = Partial(AtmoFiles, 0)
    /\ IF failAt = "write_api"
       THEN Fail("OSError")
       ELSE pc' = "write_file" /\ UNCHANGED error
    /\ UNCHANGED <<inputs, fields, requests>>

\* lines 202-213 of write_atmo_data
WriteAtmoApi ==
    /\ pc = "write_api"
    /\ \E f \in WriteCsv(outApi, AtmoApi, failAt = "write_api") : outApi' = f
    /\ IF failAt = "write_api"
       THEN Fail("OSError")
       ELSE pc' = "write_file" /\ UNCHANGED error
    /\ UNCHANGED <<inputs, fields, outFile, requests>>

\* lines 216-229 of write_atmo_data, and the assignment of line 39
WriteAtmoFiles ==
    /\ pc = "write_file"
    /\ \E f \in WriteCsv(outFile, AtmoFiles, failAt = "write_file") : outFile' = f
    /\ IF failAt = "write_file"
       THEN Fail("OSError") /\ UNCHANGED atmo_data
       ELSE /\ atmo_data' = AtmoFiles
            /\ pc' = "done"
            /\ UNCHANGED error
    /\ UNCHANGED <<inputs, cosmos_data, PE_data, PREC_data, MODIS_data, LAI_data,
                   driving_data, api_data, outApi, requests>>

Next ==
    \/ GetCosmosData
    \/ GetPEData
    \/ GetPRECData
    \/ GetMODISData
    \/ GetLAIData
    \/ ConcatFiles
    \/ GetCosmosApiData
    \/ ConcatApi
    \/ WriteAtmoApi
    \/ WriteAtmoFiles

\* ------------------------------------------------------------ initial states
Site == "CHIMN"
OtherSite == "ALIC1"

LAIVals == {F(0), F(2)}
ConfVals == {0, 1}
PEVals == {Sentinel, 3, 5}
PrecVals == {Sentinel, 1, 2}
YearSets == (SUBSET AllYears) \ {{}}
FirstDay(y) == (y - 1) * DaysPerYear + 1
LastDay(y) == y * DaysPerYear
Steps == {"cosmos", "PE", "PREC", "MODIS", "LAI", "api", "write_api", "write_file"}

ModisRow(d, s, lai, conf) == [Date |-> d, SITE_ID |-> s, LAI |-> lai, Confidence |-> conf]

\* a sample on the first and on the last day of every year
ModisEdges ==
    {ModisRow(FirstDay(y), Site, F(0), 0) : y \in AllYears}
        \cup {ModisRow(LastDay(y), Site, F(2), 1) : y \in AllYears}

\* the daily file: one row a day, PE 5 mm
HydroDaily == [d \in 1..NumDays |-> [DATE_TIME |-> d, COSMOS_VWC |-> 30, PE |-> 5]]

\* the sub-daily file: 10 mm in the first slot of every day
SubDaily == [d \in 1..NumDays |-> [DATE_TIME |-> (d - 1) * SlotsPerDay, PRECIP |-> 10]]

\* the API's answer: one coverage, one value a day from cal
Coverage(cal, pe, precip) ==
    [id |-> Site, t |-> [k \in 1..Len(cal) |-> (cal[k] - 1) * SlotsPerDay],
     ranges |-> [pe |-> pe, precip |-> precip]]
ApiDaily(ys) ==
    LET cal == date_range(ys)
    IN  [coverages |-> <<Coverage(cal, [k \in 1..Len(cal) |-> F(5)],
                                       [k \in 1..Len(cal) |-> F(10)])>>]

\* the object before line 30, with no output file written
Start ==
    /\ site = Site
    /\ pc = "cosmos"
    /\ cosmos_data = NoDF /\ PE_data = NoDF /\ PREC_data = NoDF
    /\ MODIS_data = NoDF /\ LAI_data = NoDF /\ driving_data = NoDF
    /\ api_data = NoDF /\ atmo_data = NoDF
    /\ requests = 0
    /\ error = ""

\* runs over the failures of the environment and the shapes of the inputs
Init ==
    /\ Start
    /\ years \in YearSets
    /\ hydroFile \in {HydroDaily, [HydroDaily EXCEPT ![1].PE = Sentinel]}
    /\ shFile \in {SubDaily, <<>>}
    /\ modisFile \in {ModisEdges, ModisEdges \cup {ModisRow(2, OtherSite, F(2), 0)},
                      {ModisRow(LastDay(y), Site, F(2), 1) : y \in AllYears}, {}}
    /\ apiResp \in {ApiDaily(years), [error |-> "not found"],
                    [coverages |-> <<[id |-> Site, t |-> <<0>>,
                                      ranges |-> [precip |-> <<F(1)>>]]>>]}
    /\ failAt \in Steps \cup {"none"}
    /\ outApi \in {Absent, Prior}
    /\ outFile \in {Absent, Prior}

Spec == Init /\ [][Next]_vars

\* the object before line 32: lines 30 and 31 have read the daily file
BeforePREC ==
    /\ site = Site
    /\ pc = "PREC"
    /\ cosmos_data = get_cosmos_data(hydroFile, years)
    /\ PE_data = get_PE_data(hydroFile, years)
    /\ PREC_data = NoDF /\ MODIS_data = NoDF /\ LAI_data = NoDF
    /\ driving_data = NoDF /\ api_data = NoDF /\ atmo_data = NoDF
    /\ requests = 0
    /\ error = ""

\* the object before line 33: line 32 has read the sub-daily file too
BeforeMODIS ==
    /\ site = Site
    /\ pc = "MODIS"
    /\ cosmos_data = get_cosmos_data(hydroFile, years)
    /\ PE_data = get_PE_data(hydroFile, years)
    /\ PREC_data = get_PREC_data(shFile, years)
    /\ MODIS_data = NoDF /\ LAI_data = NoDF
    /\ driving_data = NoDF /\ api_data = NoDF /\ atmo_data = NoDF
    /\ requests = 0
    /\ error = ""

\* runs of get_PREC_data over the sub-daily files: at most MaxPrecRows rows
\* in time order around the turn of the year, any of them null, any two of
\* them at the same time
PrecDays == {FirstDay(1), LastDay(1), FirstDay(2)}
PrecTimes == {t \in 0..(NumDays * SlotsPerDay - 1) : DateOf(t) \in PrecDays}
PrecFiles ==
    UNION {{f \in [1..n -> [DATE_TIME : PrecTimes, PRECIP : PrecVals]] :
              \A i \in 1..(n - 1) : f[i].DATE_TIME <= f[i + 1].DATE_TIME}
           : n \in 0..MaxPrecRows}

InitPrec ==
    /\ years \in YearSets
    /\ hydroFile = HydroDaily
    /\ shFile \in PrecFiles
    /\ modisFile = ModisEdges
    /\ apiResp = ApiDaily(years)
    /\ failAt = "none"
    /\ outApi = Absent
    /\ outFile = Absent
    /\ BeforePREC

SpecPrec == InitPrec /\ [][GetPRECData]_vars

\* runs of get_MODIS_data over the MODIS files: at most MaxSamples samples of
\* the site on distinct days, with or without a row of another site
InitLAI ==
    /\ years \in YearSets
    /\ hydroFile = HydroDaily
    /\ shFile = SubDaily
    /\ \E D \in SUBSET AllDays :
         /\ Cardinality(D) <= MaxSamples
         /\ \E lai \in [D -> LAIVals], conf \in [D -> ConfVals] :
              \E other \in {{}, {ModisRow(1, OtherSite, F(2), 0)}} :
                 modisFile = {ModisRow(d, Site, lai[d], conf[d]) : d \in D} \cup other
    /\ apiResp = ApiDaily(years)
    /\ failAt = "none"
    /\ outApi = Absent
    /\ outFile = Absent
    /\ BeforeMODIS

SpecLAI == InitLAI /\ [][GetMODISData]_vars

\* the object before line 39: every source has been read
BeforeWrite ==
    /\ site = Site
    /\ pc = "write_api"
    /\ cosmos_data = get_cosmos_data(hydroFile, years)
    /\ PE_data = get_PE_data(hydroFile, years)
    /\ PREC_data = get_PREC_data(shFile, years)
    /\ MODIS_data = get_MODIS_data(modisFile, site, years).df
    /\ LAI_data = get_MODIS_data(modisFile, site, years).df
    /\ api_data = get_cosmos_api_data(apiResp).df
    /\ driving_data = Concat3(get_cosmos_api_single(api_data, "pe").df,
                              get_cosmos_api_single(api_data, "precip").df, LAI_data).df
    /\ atmo_data = NoDF
    /\ requests = 1
    /\ error = ""

\* only the first and the last day of the files' years have a sample
ModisSparse == {ModisRow(1, Site, F(0), 0), ModisRow(NumDays, Site, F(2), 1)}

\* the API's answer with the first day's PE and precipitation set
ApiFirst(ys, pe, precip) ==
    LET cal == date_range(ys)
    IN  [coverages |-> <<Coverage(cal, [k \in 1..Len(cal) |-> IF k = 1 THEN pe ELSE F(3)],
                                       [k \in 1..Len(cal) |-> IF k = 1 THEN precip ELSE F(0)])>>]

\* runs of write_atmo_data over the driving data: any PE on the first two
\* days of the daily file, days with and without precipitation, LAI sampled
\* densely and sparsely, a null from the API
InitAtmo ==
    /\ years \in YearSets
    /\ \E pe \in [1..2 -> PEVals] :
          hydroFile = [d \in 1..NumDays |->
                         [DATE_TIME |-> d, COSMOS_VWC |-> 30,
                          PE |-> IF d <= 2 THEN pe[d] ELSE 5]]
    /\ shFile \in {SubDaily, Tail(SubDaily), <<>>}
    /\ modisFile \in {ModisEdges} \cup (IF years = AllYears THEN {ModisSparse} ELSE {})
    /\ apiResp \in {ApiFirst(years, F(5), F(10)), ApiFirst(years, NaN, F(1)),
                    ApiFirst(years, F(3), NaN)}
    /\ failAt = "none"
    /\ outApi = Absent
    /\ outFile = Absent
    /\ BeforeWrite

SpecAtmo == InitAtmo /\ [][WriteAtmoApi \/ WriteAtmoFiles]_vars

\* ------------------------------------------------------------ get_MODIS_data: claims
\* the samples get_MODIS_data reconstructs from, and its calendar
Samples == MODISRows(modisFile, site, years)
Calendar == date_range(years)

\* get_MODIS_data has run (line 33), and has returned
ReconstructionRan == pc # "MODIS"
Reconstructed == pc = "LAI"

\* LAI_pred of the returned series on day d
LAIPredOn(d) ==
    MODIS_data.cols.LAI_pred[CHOOSE k \in 1..Width(MODIS_data) : MODIS_data.index[k] = d]

\* the step of sample i damped from the previous raw LAI
RawDamped(M, i) ==
    FAdd(M[i - 1].LAI,
         FDiv(FSub(M[i].LAI, M[i - 1].LAI), F(M[i].Confidence + 1)))

\* C8 (as amended): the smoothed value of the first sample is its LAI, and
\* the smoothed value of every later sample i is
\* LAI[i-1] + (LAI[i] - LAI[i-1]) / (confidence[i] + 1): the step is damped
\* from the previous raw LAI, and no smoothed value feeds the next.  The
\* returned series carries these values on the sample days.
C8_DampedFromPreviousRaw ==
    ReconstructionRan /\ Len(Samples) > 0 =>
        /\ CALC(Samples)[1] = Samples[1].LAI
        /\ \A i \in 2..Len(Samples) : CALC(Samples)[i] = RawDamped(Samples, i)
        /\ Reconstructed =>
              /\ LAIPredOn(Samples[1].Date) = Samples[1].LAI
              /\ \A i \in 2..Len(Samples) :
                    LAIPredOn(Samples[i].Date) = RawDamped(Samples, i)

\* three samples whose third step differs between the two readings, returned
C8_Witness ==
    /\ Reconstructed
    /\ Len(Samples) >= 3
    /\ Samples[2].Confidence > 0
    /\ Samples[3].Confidence > 0
    /\ RawDamped(Samples, 3) # Smoothed(Samples, 3)
    /\ LAIPredOn(Samples[3].Date) = RawDamped(Samples, 3)

\* C8 (as claimed): smoothed[0] = LAI[0] and every later smoothed[i] is
\* smoothed[i-1] + (LAI[i] - smoothed[i-1]) / (confidence[i] + 1), a
\* recurrence over the whole sequence
C8_DampedFromPreviousSmoothed ==
    Reconstructed /\ Len(Samples) > 0 =>
        \A i \in 1..Len(Samples) :
            /\ CALC(Samples)[i] = Smoothed(Samples, i)
            /\ LAIPredOn(Samples[i].Date) = Smoothed(Samples, i)

\* C1: between any two consecutive samples i, i+1 the returned series is the
\* straight line from the smoothed value of i to the smoothed value of i+1:
\* on every day d with date[i] < d <= date[i+1],
\* LAI_pred[d] = s[i] + (s[i+1] - s[i]) * (d - date[i]) / (date[i+1] - date[i])
C1_LinearBetweenBracketingSamples ==
    Reconstructed /\ Len(Samples) >= 2 =>
        \A i \in 1..(Len(Samples) - 1) :
            \A d \in (Samples[i].Date + 1)..Samples[i + 1].Date :
                LAIPredOn(d) =
                    FAdd(CALC(Samples)[i],
                         FDiv(FMul(FSub(CALC(Samples)[i + 1], CALC(Samples)[i]),
                                   F(d - Samples[i].Date)),
                              F(Samples[i + 1].Date - Samples[i].Date)))

\* C2: whatever the samples (one at least) and the calendar, the series is
\* returned and its value on the first day of the calendar is the LAI of
\* the earliest sample, also when that sample is dated later than that day.
\* Stated here for the calendars that end on the day of the last sample.
C2_FirstDayIsFirstRawSample ==
    /\ ReconstructionRan
    /\ Len(Samples) > 0
    /\ Samples[Len(Samples)].Date = Calendar[Len(Calendar)]
    => /\ Reconstructed
       /\ MODIS_data.cols.LAI_pred[1] = Samples[1].LAI

\* C3: whatever the samples (one at least), the series is returned with one
\* row for each day of the calendar, in order, and a defined LAI_pred in
\* every row
C3_DefinedOnEveryCalendarDay ==
    ReconstructionRan /\ Len(Samples) > 0 =>
        /\ Reconstructed
        /\ MODIS_data.index = Calendar
        /\ \A k \in 1..Width(MODIS_data) : IsFinite(MODIS_data.cols.LAI_pred[k])

\* C9: when the calendar runs past the last sample, every day after it has
\* the smoothed value of the last sample.  Stated here for the calendars
\* that start on the day of the first sample.
C9_TrailingDaysKeepLastSmoothed ==
    /\ ReconstructionRan
    /\ Len(Samples) > 0
    /\ Samples[1].Date = Calendar[1]
    /\ Samples[Len(Samples)].Date < Calendar[Len(Calendar)]
    => /\ Reconstructed
       /\ \A d \in (Samples[Len(Samples)].Date + 1)..Calendar[Len(Calendar)] :
             LAIPredOn(d) = CALC(Samples)[Len(Samples)]

\* ------------------------------------------------------------ get_PREC_data: claims
PrecRan == pc = "MODIS"

\* the rows of the sub-daily file on day d, and those of them with a value
RowsOn(d) == {i \in 1..Len(shFile) : DateOf(shFile[i].DATE_TIME) = d}
ValuedRowsOn(d) == {i \in RowsOn(d) : shFile[i].PRECIP # Sentinel}

RECURSIVE Total(_)
Total(rows) ==
    IF rows = {} THEN 0
    ELSE LET i == CHOOSE r \in rows : TRUE
         IN  shFile[i].PRECIP + Total(rows \ {i})

\* C6: get_PREC_data returns one row for each day that has a row in the
\* file and lies in a requested year, in date order, and no other row; its
\* sum is the total of the values of that day that are not null and its
\* count is their number
C6_DailySumAndCount ==
    PrecRan =>
        /\ Labels(PREC_data) = {d \in AllDays : RowsOn(d) # {} /\ YearOf(d) \in years}
        /\ \A k \in 1..Width(PREC_data) :
              /\ k > 1 => PREC_data.index[k - 1] < PREC_data.index[k]
              /\ PREC_data.cols.PRECIP[k] = F(Total(ValuedRowsOn(PREC_data.index[k])))
              /\ PREC_data.cols.prec_count[k] =
                    F(Cardinality(ValuedRowsOn(PREC_data.index[k])))

\* values 2, null and 1 on one day give one row, with the sum 3 and the
\* count 2
C6_Witness ==
    /\ PrecRan
    /\ Width(PREC_data) = 1
    /\ {shFile[i].PRECIP : i \in RowsOn(PREC_data.index[1])} = {2, Sentinel, 1}
    /\ PREC_data.cols.PRECIP[1] = F(3)
    /\ PREC_data.cols.prec_count[1] = F(2)

\* ------------------------------------------------------------ write_atmo_data: claims
\* the joined driving table of each pathway (lines 202 and 216)
JoinedApi ==
    Join(Join(get_cosmos_api_single(api_data, "pe").df,
              get_cosmos_api_single(api_data, "precip").df), MODIS_data)
JoinedFiles == Join(Join(PE_data, PREC_data), MODIS_data)

ApiWritten == pc \in {"write_file", "done"}
FilesWritten == pc = "done"

Tenth(x) == FMul(Frac(1, 10), x)
Canopy(lai) == NpExp(FMul(Frac(-463, 1000), lai))

\* the records of atmo are those the claim gives for the rows of joined
RecordsOf(atmo, joined, pe, precip) ==
    /\ Width(atmo) = Width(joined)
    /\ \A k \in 1..Width(joined) :
          LET PE  == joined.cols[pe][k]
              e   == Canopy(joined.cols.LAI_pred[k])
          IN  /\ atmo.cols.tAtm[k] = F(k)
              /\ atmo.cols.Prec[k] = Tenth(joined.cols[precip][k])
              /\ atmo.cols.rSoil[k] = Tenth(FMul(PE, e))
              /\ atmo.cols.rRoot[k] = Tenth(FSub(PE, FMul(PE, e)))
              /\ atmo.cols.hCritA[k] = F(100000)
              /\ joined.cols.LAI_pred[k] = F(0) => e = F(1)
              /\ IsFinite(PE) /\ IsFinite(e) =>
                    FAdd(atmo.cols.rSoil[k], atmo.cols.rRoot[k]) = Tenth(PE)
              /\ PE = F(5) /\ joined.cols[precip][k] = F(10) /\ joined.cols.LAI_pred[k] = F(0)
                    => /\ atmo.cols.rSoil[k] = Frac(1, 2)
                       /\ atmo.cols.rRoot[k] = F(0)
                       /\ atmo.cols.Prec[k] = F(1)

\* C5: in both pathways write_atmo_data hands the writer one record for each
\* row of the joined driving table, in its order, none dropped; the k-th is
\* tAtm = k, Prec = 0.1 * Precip, rSoil = 0.1 * PE * e,
\* rRoot = 0.1 * (PE - PE * e), hCritA = 100000, with e = exp(-0.463 * LAI_pred)
\* and e = 1 for LAI_pred = 0; so rSoil + rRoot = 0.1 * PE, and PE = 5,
\* Precip = 10, LAI_pred = 0 give rSoil = 0.5, rRoot = 0, Prec = 1
C5_AtmosphereRecords ==
    /\ ApiWritten =>
          /\ RecordsOf(AtmoApi, JoinedApi, "pe", "precip")
          /\ outApi = Written(AtmoApi)
          /\ Len(outApi.lines) = Width(JoinedApi)
    /\ FilesWritten =>
          /\ RecordsOf(atmo_data, JoinedFiles, "PE", "PRECIP")
          /\ outFile = Written(atmo_data)
          /\ Len(outFile.lines) = Width(JoinedFiles)

\* both files written, the first row of both tables PE = 5, Precip = 10,
\* LAI_pred = 0, and a later row under a canopy (LAI_pred > 0)
C5_Witness ==
    /\ FilesWritten
    /\ JoinedFiles.cols.PE[1] = F(5) /\ JoinedFiles.cols.PRECIP[1] = F(10)
    /\ JoinedFiles.cols.LAI_pred[1] = F(0)
    /\ JoinedApi.cols.pe[1] = F(5) /\ JoinedApi.cols.precip[1] = F(10)
    /\ atmo_data.cols.rSoil[1] = Frac(1, 2) /\ atmo_data.cols.Prec[1] = F(1)
    /\ outFile.lines[1].cells.rSoil.v = 5000
    /\ \E k \in 2..Width(atmo_data) :
          /\ JoinedFiles.cols.LAI_pred[k][1] > 0
          /\ atmo_data.cols.rRoot[k][1] > 0

AtmoColumns == {"tAtm", "Prec", "rSoil", "rRoot", "hCritA"}

\* C7: in both pathways the records handed to the writer have the columns
\* tAtm, Prec, rSoil, rRoot, hCritA and no other: neither PE, LAI_pred nor the
\* count of precipitation samples is left in them
C7_OnlyAtmosphereColumns ==
    /\ ApiWritten =>
          /\ DOMAIN AtmoApi.cols = AtmoColumns
          /\ \A k \in 1..Len(outApi.lines) : DOMAIN outApi.lines[k].cells = AtmoColumns
    /\ FilesWritten =>
          /\ DOMAIN atmo_data.cols = AtmoColumns
          /\ \A k \in 1..Len(outFile.lines) : DOMAIN outFile.lines[k].cells = AtmoColumns

\* ------------------------------------------------------------ the run: claims
ArchivalSteps == {"cosmos", "PE", "PREC", "MODIS", "LAI"}
ReadSteps == ArchivalSteps \cup {"api"}

\* this run has created or changed the file
Touched(file) == file.by = "run"

\* lines 30-34 have returned what the files hold
ArchivalReadsDone ==
    /\ failAt \notin ArchivalSteps
    /\ pc \notin ArchivalSteps
    /\ cosmos_data = get_cosmos_data(hydroFile, years)
    /\ PE_data = get_PE_data(hydroFile, years)
    /\ PREC_data = get_PREC_data(shFile, years)
    /\ get_MODIS_data(modisFile, site, years).err = ""
    /\ MODIS_data = get_MODIS_data(modisFile, site, years).df
    /\ LAI_data = MODIS_data

\* line 36 has returned the decoded answer of the one request
ApiReadDone ==
    /\ failAt # "api"
    /\ requests = 1
    /\ get_cosmos_api_data(apiResp).err = ""
    /\ api_data = get_cosmos_api_data(apiResp).df

\* C10: no output file is created or changed before the archival soil/PE
\* read, the precipitation read, the LAI read and reconstruction and the API
\* request have all succeeded, so a run that fails in one of them ends with
\* both files untouched; the API is requested at most once, only after every
\* archival read has succeeded, and exactly once in a run that completes
C10_ReadsBeforeWrites ==
    /\ Touched(outApi) \/ Touched(outFile) => ArchivalReadsDone /\ ApiReadDone
    /\ pc = "failed" /\ ~(ArchivalReadsDone /\ ApiReadDone) =>
          ~Touched(outApi) /\ ~Touched(outFile)
    /\ requests \in {0, 1}
    /\ requests = 1 => ArchivalReadsDone
    /\ pc \in {"concat_api", "write_api", "write_file", "done"} => requests = 1

\* the API file written after every read, the archival file not yet
C10_Witness ==
    /\ pc = "write_file"
    /\ Touched(outApi)
    /\ ~Touched(outFile)
    /\ requests = 1
    /\ Width(MODIS_data) > 0 /\ Width(api_data) > 0

\* the file is as before the run, or holds the first k lines of df
UntouchedOrPartial(file, df) ==
    \/ ~Touched(file)
    \/ \E k \in 0..(Width(df) - 1) : file = Partial(df, k)

\* C4 (as amended): a run that fails in a reader, in the API request or in a
\* join leaves both output files untouched.  A run that fails in the write
\* of the API-sourced file leaves the archival-sourced file untouched and
\* the API-sourced file untouched or cut short; a run that fails in the
\* write of the archival-sourced file leaves the API-sourced file written in
\* full and the archival-sourced file untouched or cut short.  Nothing is
\* written to a temporary place and finalized at the end.
C4_FailureLeavesWhatWasWritten ==
    pc = "failed" =>
        /\ error # "OSError" => ~Touched(outApi) /\ ~Touched(outFile)
        /\ error = "OSError" /\ failAt = "write_api" =>
              /\ ~Touched(outFile)
              /\ UntouchedOrPartial(outApi, AtmoApi)
        /\ error = "OSError" /\ failAt = "write_file" =>
              /\ outApi = Written(AtmoApi)
              /\ UntouchedOrPartial(outFile, AtmoFiles)

\* the archival write failed after its first line: the API file is complete
C4_Witness ==
    /\ pc = "failed"
    /\ error = "OSError"
    /\ failAt = "write_file"
    /\ outApi = Written(AtmoApi)
    /\ Touched(outFile) /\ ~outFile.complete /\ Len(outFile.lines) > 0

\* C4 (as claimed): when a run ends with an error, whatever the step that
\* failed, this run has created or changed neither output file
C4_FailureLeavesNoOutput ==
    pc = "failed" => ~Touched(outApi) /\ ~Touched(outFile)

====
